---- MODULE Spec2Model ----
(***************************************************************************)
(* A model of src/app.py: the upload handler (upload_file), the archive    *)
(* guard (safe_extract_zip), the layout classifier (detect_export_type),   *)
(* the metadata readers and the per-file loop of process_google_takeout    *)
(* and process_apple_photos.                                               *)
(*                                                                         *)
(* Python's None is the empty sequence <<>> and a value x that is not None *)
(* is <<x>>, so that the code's two tests, "x is None" and the truth value *)
(* of x ("if x:"), stay different tests in the model.                      *)
(***************************************************************************)
EXTENDS Integers, Sequences, FiniteSets, TLC

\* ------------------------------------------------------------------ bounds

\* The largest number of media files one walk visits.
MaxFiles == 3

\* The largest number of entries of an archive handed to safe_extract_zip.
MaxEntries == 2

\* ------------------------------------------------------------ Option values

None == <<>>

Some(x) == <<x>>

IsNone(o) == o = <<>>

\* Python's truth value of an Optional[int]: None and 0 are both false.
Truthy(o) == o # <<>> /\ o[1] # 0

\* ----------------------------------------------------------- archive paths

\* os.path.abspath(extract_path), as its components below "/".
Root == <<"tmp", "extract">>

\* os.path.join(extract_path, member): an absolute member replaces the root.
JoinPath(root, m) == IF m.abs THEN m.parts ELSE root \o m.parts

\* os.path.abspath of an absolute path: ".." drops the last component kept
\* so far, and stays at "/" when there is none.
RECURSIVE NormPath(_, _)
NormPath(done, rest) ==
    IF rest = <<>> THEN done
    ELSE IF Head(rest) = ".."
         THEN NormPath(IF done = <<>> THEN <<>> ELSE SubSeq(done, 1, Len(done) - 1),
                       Tail(rest))
         ELSE NormPath(Append(done, Head(rest)), Tail(rest))

\* os.path.commonpath([p, q]): the longest common prefix, by components.
RECURSIVE CommonPath(_, _)
CommonPath(p, q) ==
    IF p = <<>> \/ q = <<>> \/ Head(p) # Head(q) THEN <<>>
    ELSE <<Head(p)>> \o CommonPath(Tail(p), Tail(q))

\* One iteration of the validation loop of safe_extract_zip: "ok", or the
\* ValueError it raises.
CheckMember(m) ==
    IF m.abs THEN "absolute path"
    ELSE IF CommonPath(Root, NormPath(<<>>, JoinPath(Root, m))) # Root
         THEN "unsafe path"
         ELSE "ok"

\* The entry names the archives of the model are built from.
EntryNames ==
    { [abs |-> FALSE, parts |-> <<"a">>],
      [abs |-> FALSE, parts |-> <<"d", "a">>],
      [abs |-> FALSE, parts |-> <<"d", "..", "a">>],
      [abs |-> FALSE, parts |-> <<"..", "extract", "a">>],
      [abs |-> FALSE, parts |-> <<"..", "a">>],
      [abs |-> FALSE, parts |-> <<"..", "extra">>],
      [abs |-> FALSE, parts |-> <<"..", "..", "etc", "a">>],
      [abs |-> TRUE, parts |-> <<"etc", "a">>],
      [abs |-> TRUE, parts |-> <<"tmp", "extract", "a">>] }

SeqsUpTo(S, k) == UNION { [1..i -> S] : i \in 0..k }

Archives == SeqsUpTo(EntryNames, MaxEntries)

\* --------------------------------------------------------------------- time

SecondsPerDay == 24 * 3600

Noon == 12 * 3600

\* Days before the first of each month, in a year that is not a leap year.
DaysBeforeMonth == <<0, 31, 59, 90, 120, 151, 181, 212, 243, 273, 304, 334>>

DaysInMonth == <<31, 28, 31, 30, 31, 30, 31, 31, 30, 31, 30, 31>>

DaysPerYear == DaysBeforeMonth[12] + DaysInMonth[12]

\* datetime(year, month, day, ...) raises ValueError unless this holds. The
\* model's dates lie in 1970 and 1971, neither a leap year.
ValidDate(date) ==
    /\ date[1] \in 1..9999
    /\ date[2] \in 1..12
    /\ date[3] \in 1..DaysInMonth[date[2]]

\* datetime(y, m, d, H, M, S).timestamp() of a naive datetime: the epoch
\* second of that local time, in a zone tz seconds east of UTC. sod is the
\* second of the day. For dates of 1970 and 1971.
LocalToEpoch(date, sod, tz) ==
    ((date[1] - 1970) * DaysPerYear + DaysBeforeMonth[date[2]] + (date[3] - 1))
        * SecondsPerDay + sod - tz

\* datetime.fromtimestamp(ts): the local time, as its year and the second of
\* that year (strftime('%Y-%m-%d_%H-%M-%S') prints exactly this much).
\* For local times of 1969 to 1972.
FromTimestamp(ts, tz) ==
    [year |-> 1970 + ((ts + tz) \div (DaysPerYear * SecondsPerDay)),
     soy |-> (ts + tz) % (DaysPerYear * SecondsPerDay)]

\* The UTC offsets of the server's local zone: UTC, and twelve hours east.
Zones == {0, Noon}

\* -------------------------------------------------------------- media files

\* A sidecar JSON file. exists: os.path.exists(json_path); ok: json.load
\* succeeds and the fields read are well formed; photoTakenTime and
\* creationTime: None when the key is absent, Some(None) when the key is there
\* without a 'timestamp', Some(Some(t)) when it carries the timestamp t.
NoSidecar == [exists |-> FALSE, ok |-> FALSE, photoTakenTime |-> None, creationTime |-> None]

Malformed == [exists |-> TRUE, ok |-> FALSE, photoTakenTime |-> None, creationTime |-> None]

PhotoTaken(t) ==
    [exists |-> TRUE, ok |-> TRUE, photoTakenTime |-> Some(Some(t)), creationTime |-> None]

CreationOnly(t) ==
    [exists |-> TRUE, ok |-> TRUE, photoTakenTime |-> None, creationTime |-> Some(Some(t))]

\* File names, by what the patterns of the filename parser find in them.
\* shape "wa": WA_PATTERN matches, with the three groups in date; shape
\* "date": only the generic pattern (\d{4})[-_](\d{2})[-_](\d{2}) matches;
\* shape "plain": no pattern matches.
WaName == [text |-> "IMG-19700101-WA0001", shape |-> "wa", date |-> <<1970, 1, 1>>]

WaBadName == [text |-> "IMG-19701301-WA0001", shape |-> "wa", date |-> <<1970, 13, 1>>]

DateName == [text |-> "1970-01-01", shape |-> "date", date |-> <<1970, 1, 1>>]

DateBadName == [text |-> "1970-13-01", shape |-> "date", date |-> <<1970, 13, 1>>]

PlainName == [text |-> "photo", shape |-> "plain", date |-> <<0, 0, 0>>]

\* The extensions of the media files of the model: one that
\* set_exif_datetime rewrites, one that only gets os.utime.
Exts == {".jpg", ".png"}

\* The extensions of the trees detect_export_type is given: one more, which
\* the loops process and has_photos does not look for.
TreeExts == Exts \cup {".gif"}

\* A date and time as EXIF and XMP hold it: a local date and second of day.
NewYear71 == [date |-> <<1971, 1, 1>>, sod |-> 0]

Noon70 == [date |-> <<1970, 1, 1>>, sod |-> Noon]

\* Every media file of the model: its name and extension, the two sidecar
\* candidates <media>.json and <stem>.json, the EXIF DateTimeOriginal and the
\* XMP date when the file holds one that parses, os.path.getmtime, and the
\* (size, sha1) key of its content.
AllFiles ==
    [name : {WaName, WaBadName, DateName, DateBadName, PlainName},
     ext : Exts,
     media_json : {NoSidecar, Malformed, PhotoTaken(0), PhotoTaken(Noon), CreationOnly(5)},
     stem_json : {NoSidecar, PhotoTaken(7)},
     exif : {None, Some(NewYear71)},
     xmp : {None, Some(Noon70)},
     mtime : {9},
     key : {1}]

\* The files a walk of several files draws from: no embedded metadata, the
\* sidecar beside the media file only.
BatchFiles ==
    [name : {WaName, PlainName},
     ext : Exts,
     media_json : {NoSidecar, PhotoTaken(0)},
     stem_json : {NoSidecar},
     exif : {None},
     xmp : {None},
     mtime : {9},
     key : {1, 2}]

\* The files of the walks followed to see how a request ends: one that is
\* processed and one whose name makes the filename parser raise.
ExitFiles ==
    [name : {PlainName, WaBadName},
     ext : Exts,
     media_json : {NoSidecar},
     stem_json : {NoSidecar},
     exif : {None},
     xmp : {None},
     mtime : {9},
     key : {1}]

\* `file`, the name the walk yields: the stem and the extension.
FileName(f) == <<f.name.text, f.ext>>

\* ----------------------------------------------------------------- readers

\* parse_google_takeout_json: the timestamp, or None. creationTime is read
\* only when the photoTakenTime key is absent (elif).
ParseGoogleTakeoutJson(sc) ==
    IF ~sc.ok THEN None
    ELSE IF sc.photoTakenTime # None THEN sc.photoTakenTime[1]
    ELSE IF sc.creationTime # None THEN sc.creationTime[1]
    ELSE None

\* json_path = image_path + '.json', and <stem>.json when that does not exist.
SidecarOf(f) == IF f.media_json.exists THEN f.media_json ELSE f.stem_json

\* The EXIF block of the two loops: int(dt.timestamp()) of DateTimeOriginal;
\* every failure is swallowed by the bare except.
ReadExif(f, tz) ==
    IF f.exif = None THEN None ELSE Some(LocalToEpoch(f.exif[1].date, f.exif[1].sod, tz))

\* extract_xmp_metadata(image_path)['timestamp'], None also when the function
\* returns None.
ExtractXmpTimestamp(f, tz) ==
    IF f.xmp = None THEN None ELSE Some(LocalToEpoch(f.xmp[1].date, f.xmp[1].sod, tz))

\* parse_filename_for_date: the date-only pattern gives noon; a ValueError of
\* datetime() is caught and the remaining patterns do not match these names.
ParseFilenameForDate(name, tz) ==
    IF name.shape = "date" /\ ValidDate(name.date)
          /\ name.date[1] \in 1970..2100 /\ name.date[3] \in 1..31
    THEN Some(LocalToEpoch(name.date, Noon, tz))
    ELSE None

\* get_timestamp_from_filename: (timestamp, is_wa), or the ValueError that
\* datetime(year, month, day, 12, 0, 0) raises, which nothing here catches.
GetTimestampFromFilename(name, tz) ==
    IF name.shape = "wa"
    THEN IF ValidDate(name.date)
         THEN [raised |-> FALSE, ts |-> Some(LocalToEpoch(name.date, Noon, tz)), is_wa |-> TRUE]
         ELSE [raised |-> TRUE, ts |-> None, is_wa |-> FALSE]
    ELSE [raised |-> FALSE, ts |-> ParseFilenameForDate(name, tz), is_wa |-> FALSE]

\* ---------------------------------------------------------------- resolver

\* timestamp = None; classification = None; is_wa = False
Unresolved == [ts |-> None, classification |-> "None", is_wa |-> FALSE, raised |-> FALSE]

\* Stage 1, process_google_takeout only.
StageSidecar(r, f) ==
    IF SidecarOf(f).exists
    THEN LET t == ParseGoogleTakeoutJson(SidecarOf(f))
         IN [r EXCEPT !.ts = t,
                      !.classification = IF Truthy(t) THEN "fixed" ELSE @]
    ELSE r

StageExif(r, f, tz) ==
    IF r.ts = None /\ ReadExif(f, tz) # None
    THEN [r EXCEPT !.ts = ReadExif(f, tz), !.classification = "fixed"]
    ELSE r

StageXmp(r, f, tz) ==
    IF r.ts = None /\ Truthy(ExtractXmpTimestamp(f, tz))
    THEN [r EXCEPT !.ts = ExtractXmpTimestamp(f, tz), !.classification = "fixed"]
    ELSE r

StageFilename(r, f, tz) ==
    IF r.ts = None
    THEN LET p == GetTimestampFromFilename(f.name, tz)
         IN IF p.raised THEN [r EXCEPT !.raised = TRUE]
            ELSE [r EXCEPT !.ts = p.ts, !.is_wa = p.is_wa,
                           !.classification = IF Truthy(p.ts) THEN "restored_from_filename" ELSE @]
    ELSE r

StageMtime(r, f, use_mtime) ==
    IF ~r.raised /\ r.ts = None /\ use_mtime
    THEN [r EXCEPT !.ts = Some(f.mtime), !.classification = "fixed"]
    ELSE r

\* The stages of one loop iteration, from the reset of timestamp to the test
\* "if timestamp is None" that follows the mtime fallback.
ResolveTimestamp(f, lay, use_mtime, tz) ==
    LET r1 == IF lay = "google_takeout" THEN StageSidecar(Unresolved, f) ELSE Unresolved
        r2 == StageExif(r1, f, tz)
        r3 == StageXmp(r2, f, tz)
        r4 == StageFilename(r3, f, tz)
    IN StageMtime(r4, f, use_mtime)

\* -------------------------------------------------------------------- state

VARIABLES
    pc,             \* where the handler is: see the actions
    response,       \* what upload_file returned: [status, body], or no response yet
    exc,            \* the exception an except clause of upload_file caught: [type, origin]
    temp_dirs,      \* upload_file's list temp_dirs
    disk,           \* the working directories that exist on disk
    zip_members,    \* zip_file.namelist()
    zip_idx,        \* the member the validation loop of safe_extract_zip is at
    zip_written,    \* the members extractall has written
    tz,             \* the UTC offset of the server's local zone
    flags,          \* use_mtime_fallback, skip_no_metadata, remove_duplicates
    tree,           \* the extracted tree as detect_export_type sees it: [has_json, exts]
    layout,         \* detect_export_type's answer
    stats,          \* the stats dict of the running process_* call
    seen_hashes,    \* dup_key -> the file name kept for it
    duplicate_log,  \* the lines of the duplicate report, <<name, kept name>>
    year_dirs,      \* <output>/<year>/: path -> the source file copied there
    needs_review,   \* <output>/Needs_Review/: file name -> the source file copied there
    visited,        \* how many media files the walk has visited
    first_seen,     \* history: dup_key -> [name, count] of the visits with that key
    copies,         \* history: the copies into year directories, in order
    last            \* history: the last visit, its file and what became of it

vars == <<pc, response, exc, temp_dirs, disk, zip_members, zip_idx, zip_written, tz,
          flags, tree, layout, stats, seen_hashes, duplicate_log, year_dirs, needs_review,
          visited, first_seen, copies, last>>

zipVars == <<zip_members, zip_idx, zip_written>>

walkVars == <<stats, seen_hashes, duplicate_log, year_dirs, needs_review, visited,
              first_seen, copies, last>>

NoResponse == [status |-> 0, body |-> ""]

NoException == [type |-> "", origin |-> ""]

NoVisit == [kind |-> "none"]

\* No tree has been extracted yet.
NoTree == [has_json |-> FALSE, exts |-> {}]

\* The stats dict as process_* creates it.
NewStats ==
    [total_files |-> 0, fixed |-> 0, restored_from_filename |-> 0, renamed_only |-> 0,
     skipped |-> 0, duplicates_removed |-> 0]

EmptyMap == [x \in {} |-> 0]

Range(s) == { s[i] : i \in DOMAIN s }

Flags == [use_mtime_fallback : BOOLEAN, skip_no_metadata : BOOLEAN, remove_duplicates : BOOLEAN]

\* The state when a request arrives.
Init ==
    /\ pc = "request"
    /\ response = NoResponse
    /\ exc = NoException
    /\ temp_dirs = <<>>
    /\ disk = {}
    /\ zip_members = <<>>
    /\ zip_idx = 1
    /\ zip_written = {}
    /\ tz \in Zones
    /\ flags \in Flags
    /\ tree = NoTree
    /\ layout = ""
    /\ stats = NewStats
    /\ seen_hashes = EmptyMap
    /\ duplicate_log = <<>>
    /\ year_dirs = EmptyMap
    /\ needs_review = EmptyMap
    /\ visited = 0
    /\ first_seen = EmptyMap
    /\ copies = <<>>
    /\ last = NoVisit

\* ------------------------------------------------------------ upload_file

\* CleanupTempDirs as a cleanup that removes nothing.
CleanupNothing(on_disk, dirs) == on_disk

\* cleanup_temp_dirs(temp_dirs): what is left on disk.
CleanupTempDirs(on_disk, dirs) == on_disk \ Range(dirs)

\* The locals of a process_* call that has not started, or is over, and an
\* output directory with nothing in it.
NoWalk ==
    /\ stats' = NewStats
    /\ seen_hashes' = EmptyMap
    /\ duplicate_log' = <<>>
    /\ year_dirs' = EmptyMap
    /\ needs_review' = EmptyMap
    /\ visited' = 0
    /\ first_seen' = EmptyMap
    /\ copies' = <<>>

\* An exception raised inside the try block of upload_file: the except
\* clause for its type cleans up and returns the error.
ExceptClause(type, origin) ==
    /\ exc' = [type |-> type, origin |-> origin]
    /\ disk' = CleanupTempDirs(disk, temp_dirs)
    /\ response' =
          IF type = "BadZipFile" THEN [status |-> 400, body |-> "Invalid ZIP file"]
          ELSE IF type = "ValueError" THEN [status |-> 400, body |-> "Security error"]
          ELSE [status |-> 500, body |-> "Processing error"]
    /\ pc' = "returned"

\* The request checks: the early returns, which create nothing.
RejectRequest ==
    /\ pc = "request"
    /\ \E why \in {"No file uploaded", "No file selected", "Only ZIP files are allowed",
                   "This free web version supports ZIP files up to 200MB."} :
          response' = [status |-> 400, body |-> why]
    /\ disk' = CleanupTempDirs(disk, temp_dirs)
    /\ pc' = "returned"
    /\ UNCHANGED <<exc, temp_dirs, zipVars, tz, flags, tree, layout, walkVars>>

\* The three mkdtemp calls, each registered in temp_dirs, and file.save.
SaveUpload ==
    /\ pc = "request"
    /\ temp_dirs' = <<"upload", "extract", "output">>
    /\ disk' = disk \cup {"upload", "extract", "output"}
    /\ pc' = "saved"
    /\ UNCHANGED <<response, exc, zipVars, tz, flags, tree, layout, walkVars>>

\* zipfile.ZipFile(zip_path, 'r') on a file that is no archive.
OpenCorruptZip ==
    /\ pc = "saved"
    /\ ExceptClause("BadZipFile", "ZipFile")
    /\ UNCHANGED <<temp_dirs, zipVars, tz, flags, tree, layout, walkVars>>

\* The archives the handler is given: one that is safe, one with an unsafe
\* entry after a safe one.
UploadedArchives ==
    { <<[abs |-> FALSE, parts |-> <<"a">>]>>,
      <<[abs |-> FALSE, parts |-> <<"a">>], [abs |-> FALSE, parts |-> <<"..", "..", "etc", "a">>]>> }

\* zipfile.ZipFile(zip_path, 'r') on an archive: safe_extract_zip starts.
OpenZip ==
    /\ pc = "saved"
    /\ zip_members' \in UploadedArchives
    /\ zip_idx' = 1
    /\ pc' = "validating"
    /\ UNCHANGED <<response, exc, temp_dirs, disk, zip_written, tz, flags, tree, layout, walkVars>>

\* ValidateMember as extract-then-check would have it: each member is written
\* as soon as it has passed its own check.
ValidateMemberExtracting ==
    /\ pc = "validating"
    /\ zip_idx <= Len(zip_members)
    /\ IF CheckMember(zip_members[zip_idx]) = "ok"
       THEN /\ zip_idx' = zip_idx + 1
            /\ zip_written' = zip_written \cup {zip_members[zip_idx]}
            /\ UNCHANGED <<pc, exc, response, disk>>
       ELSE /\ ExceptClause("ValueError", "safe_extract_zip")
            /\ UNCHANGED <<zip_idx, zip_written>>
    /\ UNCHANGED <<temp_dirs, zip_members, tz, flags, tree, layout, walkVars>>

\* safe_extract_zip, one iteration of "for member in zip_file.namelist()".
ValidateMember ==
    /\ pc = "validating"
    /\ zip_idx <= Len(zip_members)
    /\ IF CheckMember(zip_members[zip_idx]) = "ok"
       THEN /\ zip_idx' = zip_idx + 1
            /\ UNCHANGED <<pc, exc, response, disk>>
       ELSE /\ ExceptClause("ValueError", "safe_extract_zip")
            /\ UNCHANGED zip_idx
    /\ UNCHANGED <<temp_dirs, zip_members, zip_written, tz, flags, tree, layout, walkVars>>

\* safe_extract_zip, after the loop: zip_file.extractall(extract_path).
ExtractAll ==
    /\ pc = "validating"
    /\ zip_idx > Len(zip_members)
    /\ zip_written' = Range(zip_members)
    /\ pc' = "extracted"
    /\ UNCHANGED <<response, exc, temp_dirs, disk, zip_members, zip_idx, tz, flags, tree, layout,
                   walkVars>>

\* detect_export_type over a tree with or without a .json file and with the
\* media extensions exts: has_photos looks for a shorter list of extensions
\* than the loops process. The walks the model follows are those of trees
\* with files of Exts.
DetectExportType(has_json, exts) ==
    LET has_photos == exts \cap {".jpg", ".jpeg", ".png", ".heic", ".heif"} # {}
    IN IF has_json /\ has_photos THEN "google_takeout"
       ELSE IF has_photos THEN "apple_photos"
       ELSE "unknown"

\* export_type = detect_export_type(extract_dir), and the return for 'unknown'.
Detect ==
    /\ pc = "extracted"
    /\ \E has_json \in BOOLEAN, exts \in SUBSET TreeExts :
          /\ tree' = [has_json |-> has_json, exts |-> exts]
          /\ layout' = DetectExportType(has_json, exts)
          /\ IF layout' = "unknown"
             THEN /\ disk' = CleanupTempDirs(disk, temp_dirs)
                  /\ response' = [status |-> 400, body |-> "Could not detect export type"]
                  /\ pc' = "returned"
             ELSE /\ exts \subseteq Exts
                  /\ pc' = "walk"
                  /\ UNCHANGED <<disk, response>>
    /\ UNCHANGED <<exc, temp_dirs, zipVars, tz, flags, walkVars>>

\* The end of the walk: process_* returns its stats, the output tree is
\* zipped and send_file's response is returned with cleanup left to its close.
SendResponse ==
    /\ pc = "walk"
    /\ visited >= 1
    /\ response' = [status |-> 200, body |-> "fixed_photos.zip", headers |-> stats]
    /\ pc' = "sent"
    /\ UNCHANGED <<exc, temp_dirs, disk, zipVars, tz, flags, tree, layout, walkVars>>

\* response.call_on_close: cleanup().
CloseResponse ==
    /\ pc = "sent"
    /\ disk' = CleanupTempDirs(disk, temp_dirs)
    /\ pc' = "closed"
    /\ NoWalk
    /\ UNCHANGED <<response, exc, temp_dirs, zipVars, tz, flags, tree, layout, last>>

\* ------------------------------------------------------- the per-file loop

\* A path below <output>/<year>/: the base name (the local time, _WA, _FN),
\* the collision suffix (<<>> when there is none) and the extension.
YearPath(stamp, wa, fn, suffix, ext) ==
    [year |-> stamp.year, soy |-> stamp.soy, wa |-> wa, fn |-> fn, suffix |-> suffix,
     ext |-> ext]

NoPath == YearPath([year |-> 0, soy |-> 0], FALSE, FALSE, <<>>, "")

\* f"{counter:03d}": the decimal digits, padded with zeros to three.
FormatCounter(counter) == <<(counter \div 100) % 10, (counter \div 10) % 10, counter % 10>>

\* ResolveCollision without the while loop: the first name, taken or not.
OverwriteCollision(existing, stamp, wa, fn, ext, counter) ==
    YearPath(stamp, wa, fn, <<>>, ext)

\* counter = 1; while os.path.exists(new_path): new_path = base_counter; counter += 1
RECURSIVE ResolveCollision(_, _, _, _, _, _)
ResolveCollision(existing, stamp, wa, fn, ext, counter) ==
    LET new_path == YearPath(stamp, wa, fn,
                             IF counter = 0 THEN <<>> ELSE FormatCounter(counter), ext)
    IN IF new_path \in existing
       THEN ResolveCollision(existing, stamp, wa, fn, ext, counter + 1)
       ELSE new_path

\* The path a dated file is copied to: year folder, base name with its flags,
\* the first name that does not exist yet.
NewPath(existing, r, ext, zone) ==
    ResolveCollision(existing, FromTimestamp(r.ts[1], zone), r.is_wa,
                     r.classification = "restored_from_filename", ext, 0)

\* IsDuplicate that never finds the key among the ones seen.
IsDuplicateNever(f, remove_duplicates, seen) == remove_duplicates /\ f.key \in {}

\* if remove_duplicates and dup_key in seen_hashes
IsDuplicate(f, remove_duplicates, seen) == remove_duplicates /\ f.key \in DOMAIN seen

\* d[k] = v of a Python dict.
Put(d, k, v) == [x \in DOMAIN d \cup {k} |-> IF x = k THEN v ELSE d[x]]

\* The system calls of one iteration that can fail.
IOFaults == {"none", "getsize", "read", "copy", "utime", "exif"}

\* The failures the walks over several files are followed with: those that
\* end the walk.
BatchFaults == IOFaults \ {"exif"}

\* Whether the iteration for f makes the call that io names: getsize and the
\* hashing read come first for every file; copy for a file that is neither a
\* duplicate nor skipped; the bare os.utime for a dated file that is no JPEG;
\* the EXIF write of set_exif_datetime for a dated file that is one, which
\* catches what is raised, falls back to os.utime and returns False.
Reaches(f, io, r, dup, skip) ==
    \/ io \in {"none", "getsize", "read"}
    \/ io = "copy" /\ ~dup /\ ~r.raised /\ ~(r.ts = None /\ skip)
    \/ io = "utime" /\ ~dup /\ ~r.raised /\ r.ts # None /\ f.ext \notin {".jpg", ".jpeg"}
    \/ io = "exif" /\ ~dup /\ ~r.raised /\ r.ts # None /\ f.ext \in {".jpg", ".jpeg"}

Visit(kind, f, io, r, path) ==
    [kind |-> kind, f |-> f, io |-> io, src |-> visited + 1, ts |-> r.ts,
     classification |-> r.classification, is_wa |-> r.is_wa, path |-> path]

\* An exception leaves process_*, whose locals are gone with its frame, and
\* reaches the except clauses of upload_file, which remove the output tree.
Raise(type, origin, f, io, r) ==
    /\ ExceptClause(type, origin)
    /\ NoWalk
    /\ last' = Visit("raised", f, io, r, NoPath)

\* One iteration of the loop over the media files, in process_google_takeout
\* and in process_apple_photos, for the file f the walk yields.
ProcessFile(f, io) ==
    LET file == FileName(f)
        dup == IsDuplicate(f, flags.remove_duplicates, seen_hashes)
        r == ResolveTimestamp(f, layout, flags.use_mtime_fallback, tz)
        new_path == NewPath(DOMAIN year_dirs, r, f.ext, tz)
        source == [src |-> visited + 1, file |-> file, key |-> f.key, utime |-> None,
                   exif |-> None]
        written == IF f.ext \in {".jpg", ".jpeg"} /\ io # "exif" THEN r.ts ELSE None
        total == [stats EXCEPT !.total_files = @ + 1]
        history == IF f.key \in DOMAIN first_seen
                   THEN Put(first_seen, f.key, [first_seen[f.key] EXCEPT !.count = @ + 1])
                   ELSE Put(first_seen, f.key, [file |-> file, count |-> 1])
    IN
    /\ pc = "walk"
    /\ visited < MaxFiles
    /\ layout = "apple_photos" => f.media_json = NoSidecar /\ f.stem_json = NoSidecar
    /\ f.ext \in tree.exts
    /\ Reaches(f, io, r, dup, flags.skip_no_metadata)
    /\ UNCHANGED <<temp_dirs, zipVars, tz, flags, tree, layout>>
    /\ IF io \in {"getsize", "read"} THEN Raise("OSError", io, f, io, Unresolved)
       ELSE IF dup THEN
            /\ stats' = [total EXCEPT !.duplicates_removed = @ + 1]
            /\ duplicate_log' = Append(duplicate_log, <<file, seen_hashes[f.key]>>)
            /\ last' = Visit("duplicate", f, io, Unresolved, NoPath)
            /\ visited' = visited + 1
            /\ first_seen' = history
            /\ UNCHANGED <<pc, exc, response, disk, seen_hashes, year_dirs, needs_review, copies>>
       ELSE IF r.raised THEN Raise("ValueError", "get_timestamp_from_filename", f, io, r)
       ELSE IF io = "copy" THEN Raise("OSError", io, f, io, r)
       ELSE IF r.ts = None /\ flags.skip_no_metadata THEN
            /\ stats' = [total EXCEPT !.skipped = @ + 1]
            /\ seen_hashes' = Put(seen_hashes, f.key, file)
            /\ last' = Visit("skipped", f, io, r, NoPath)
            /\ visited' = visited + 1
            /\ first_seen' = history
            /\ UNCHANGED <<pc, exc, response, disk, duplicate_log, year_dirs, needs_review, copies>>
       ELSE IF r.ts = None THEN
            /\ stats' = [total EXCEPT !.renamed_only = @ + 1]
            /\ seen_hashes' = Put(seen_hashes, f.key, file)
            /\ needs_review' = Put(needs_review, file, [source EXCEPT !.utime = None])
            /\ last' = Visit("review", f, io, [r EXCEPT !.classification = "renamed_only"],
                             NoPath)
            /\ visited' = visited + 1
            /\ first_seen' = history
            /\ UNCHANGED <<pc, exc, response, disk, duplicate_log, year_dirs, copies>>
       ELSE IF io = "utime" THEN Raise("OSError", io, f, io, r)
       ELSE
            /\ stats' = IF r.classification # "None"
                        THEN [total EXCEPT ![r.classification] = @ + 1]
                        ELSE total
            /\ seen_hashes' = Put(seen_hashes, f.key, file)
            /\ year_dirs' = Put(year_dirs, new_path,
                                 [source EXCEPT !.utime = r.ts, !.exif = written])
            /\ copies' = Append(copies, [src |-> visited + 1, ts |-> r.ts[1], wa |-> r.is_wa,
                                          fn |-> r.classification = "restored_from_filename",
                                          ext |-> f.ext, path |-> new_path])
            /\ last' = Visit("dated", f, io, r, new_path)
            /\ visited' = visited + 1
            /\ first_seen' = history
            /\ UNCHANGED <<pc, exc, response, disk, duplicate_log, needs_review>>

\* The walk yields one more media file.
VisitFile ==
    /\ pc = "walk"
    /\ visited < MaxFiles
    /\ \E f \in BatchFiles, io \in BatchFaults : ProcessFile(f, io)

\* The walk yields its only media file.
VisitOnlyFile ==
    /\ pc = "walk"
    /\ visited = 0
    /\ \E f \in AllFiles, io \in IOFaults : ProcessFile(f, io)

\* The walk yields its only media file, one of ExitFiles.
VisitExitFile ==
    /\ pc = "walk"
    /\ visited = 0
    /\ \E f \in ExitFiles, io \in IOFaults : ProcessFile(f, io)

\* ----------------------------------------------------------- specifications

Next ==
    \/ RejectRequest
    \/ SaveUpload
    \/ OpenCorruptZip
    \/ OpenZip
    \/ ValidateMember
    \/ ExtractAll
    \/ Detect
    \/ VisitFile
    \/ SendResponse
    \/ CloseResponse

\* A request, from its arrival to the close of its response.
Spec == Init /\ [][Next]_vars

\* The walk yields the only media file of the tree.
NextFile ==
    \/ RejectRequest
    \/ SaveUpload
    \/ OpenCorruptZip
    \/ OpenZip
    \/ ValidateMember
    \/ ExtractAll
    \/ Detect
    \/ VisitOnlyFile
    \/ SendResponse
    \/ CloseResponse

\* A request whose archive holds one media file, any file of AllFiles.
SpecFile == Init /\ [][NextFile]_vars

NextExit ==
    \/ RejectRequest
    \/ SaveUpload
    \/ OpenCorruptZip
    \/ OpenZip
    \/ ValidateMember
    \/ ExtractAll
    \/ Detect
    \/ VisitExitFile
    \/ SendResponse
    \/ CloseResponse

\* Every way a request ends. The handler runs to its return, and the server
\* closes a response it sent.
SpecExit == Init /\ [][NextExit]_vars /\ WF_vars(NextExit)

\* safe_extract_zip on its own: the state when it is called.
InitZip ==
    /\ pc = "validating"
    /\ response = NoResponse
    /\ exc = NoException
    /\ temp_dirs = <<"upload", "extract", "output">>
    /\ disk = {"upload", "extract", "output"}
    /\ zip_members \in Archives
    /\ zip_idx = 1
    /\ zip_written = {}
    /\ tz = 0
    /\ flags = [use_mtime_fallback |-> FALSE, skip_no_metadata |-> FALSE,
                remove_duplicates |-> FALSE]
    /\ tree = NoTree
    /\ layout = ""
    /\ stats = NewStats
    /\ seen_hashes = EmptyMap
    /\ duplicate_log = <<>>
    /\ year_dirs = EmptyMap
    /\ needs_review = EmptyMap
    /\ visited = 0
    /\ first_seen = EmptyMap
    /\ copies = <<>>
    /\ last = NoVisit

NextZip ==
    \/ ValidateMember
    \/ ExtractAll

SpecZip == InitZip /\ [][NextZip]_vars

\* ------------------------------------------------------------------ claims

IsPrefix(p, q) == Len(p) <= Len(q) /\ SubSeq(q, 1, Len(p)) = p

\* An entry name that is absolute, or that joined to the extraction root and
\* normalised lies outside the root.
EscapesRoot(m) == m.abs \/ ~IsPrefix(Root, NormPath(<<>>, JoinPath(Root, m)))

HasUnsafeEntry == \E i \in DOMAIN zip_members : EscapesRoot(zip_members[i])

\* C1: safe_extract_zip validates before it extracts. For an archive with at
\* least one entry that is absolute or resolves outside the extraction root,
\* extractall is never reached and no entry is written, also no safe entry
\* listed before the unsafe one; the call ends in the unsafe-entry error.
C1_ValidateThenExtract ==
    HasUnsafeEntry =>
        /\ zip_written = {}
        /\ pc \in {"validating", "returned"}
        /\ pc = "validating" => zip_idx <= Len(zip_members)
        /\ pc = "returned" => /\ exc = [type |-> "ValueError", origin |-> "safe_extract_zip"]
                              /\ response.status = 400

\* An archive whose first entry is safe and whose second is not has been
\* refused, with nothing written.
C1_Witness ==
    /\ pc = "returned"
    /\ exc.origin = "safe_extract_zip"
    /\ Len(zip_members) = 2
    /\ ~EscapesRoot(zip_members[1])
    /\ EscapesRoot(zip_members[2])
    /\ zip_written = {}

RECURSIVE SumCounts(_, _)
SumCounts(m, keys) ==
    IF keys = {} THEN 0
    ELSE LET k == CHOOSE x \in keys : TRUE
         IN (m[k].count - 1) + SumCounts(m, keys \ {k})

OutputEntries == Range(year_dirs) \cup Range(needs_review)

\* C4: with remove_duplicates, of the files that share a (size, hash) key only
\* the first in walk order is processed further. Every later one is left out
\* of the output tree, adds exactly one to duplicates_removed and is logged as
\* a duplicate of the first file with that key, the third copy too.
C4_DuplicatesAgainstFirst ==
    (flags.remove_duplicates /\ pc \in {"walk", "sent"}) =>
        /\ stats.duplicates_removed = SumCounts(first_seen, DOMAIN first_seen)
        /\ Len(duplicate_log) = stats.duplicates_removed
        /\ \A e \in OutputEntries : e.file = first_seen[e.key].file
        /\ \A k \in DOMAIN seen_hashes : seen_hashes[k] = first_seen[k].file
        /\ last.kind # "none" =>
              LET later == first_seen[last.f.key].count > 1
              IN /\ later <=> last.kind = "duplicate"
                 /\ later =>
                       /\ duplicate_log[Len(duplicate_log)]
                             = <<FileName(last.f), first_seen[last.f.key].file>>
                       /\ \A e \in OutputEntries : e.src # last.src

\* The third file with one key has been visited; the second did not have the
\* name of the first; both later ones are logged against the first.
C4_Witness ==
    /\ flags.remove_duplicates
    /\ pc = "walk"
    /\ last.kind = "duplicate"
    /\ first_seen[last.f.key].count = 3
    /\ Len(duplicate_log) = 2
    /\ duplicate_log[1][1] # duplicate_log[1][2]
    /\ duplicate_log[2][2] = duplicate_log[1][2]
    /\ duplicate_log[2][2] = first_seen[last.f.key].file

SameSlot(a, b) == a.ts = b.ts /\ a.wa = b.wa /\ a.fn = b.fn /\ a.ext = b.ext

\* The files copied before the i-th copy that resolved to its second, flags
\* and extension.
EarlierInSlot(i) == { j \in 1..(i - 1) : SameSlot(copies[j], copies[i]) }

\* C5: of the files that resolve to the same second, the same _WA/_FN flags
\* and the same extension, the k-th in walk order is written as base for
\* k = 1 and as base_<k-1 in three digits> for k > 1; no two files get the
\* same final name and no file written to a year directory is overwritten.
C5_CollisionCounter ==
    /\ \A i \in DOMAIN copies :
          LET k == Cardinality(EarlierInSlot(i)) + 1
              c == copies[i]
          IN /\ c.path = YearPath(FromTimestamp(c.ts, tz), c.wa, c.fn,
                                  IF k = 1 THEN <<>> ELSE <<0, 0, k - 1>>, c.ext)
             /\ c.path \in DOMAIN year_dirs
             /\ year_dirs[c.path].src = c.src
    /\ \A i, j \in DOMAIN copies : copies[i].path = copies[j].path => i = j
    /\ Cardinality(DOMAIN year_dirs) = Len(copies)

\* Three files of one second, flag combination and extension have been
\* written: base, base_001 and base_002.
C5_Witness ==
    /\ Len(copies) = 3
    /\ SameSlot(copies[1], copies[2])
    /\ SameSlot(copies[1], copies[3])
    /\ copies[1].path.suffix = <<>>
    /\ copies[2].path.suffix = <<0, 0, 1>>
    /\ copies[3].path.suffix = <<0, 0, 2>>

SidecarStage(f) ==
    IF layout = "google_takeout" /\ SidecarOf(f).exists
    THEN ParseGoogleTakeoutJson(SidecarOf(f))
    ELSE None

NameStage(f) ==
    IF f.name.shape \in {"wa", "date"} /\ ValidDate(f.name.date)
    THEN Some(LocalToEpoch(f.name.date, Noon, tz))
    ELSE None

MtimeStage(f) == IF flags.use_mtime_fallback THEN Some(f.mtime) ELSE None

\* The last visit is one whose system calls all succeeded, and the locals of
\* the walk are still there to look at.
Visited == last.kind # "none" /\ last.io = "none" /\ pc # "closed"

\* C2: in a Takeout-layout run a media file whose sidecar has a photo-taken
\* timestamp T resolves to T exactly and is classified and counted as fixed,
\* for every integer T, 0 included.
C2_SidecarTimestampFixed ==
    (/\ Visited
     /\ layout = "google_takeout"
     /\ SidecarOf(last.f).ok
     /\ SidecarOf(last.f).photoTakenTime # None
     /\ SidecarOf(last.f).photoTakenTime[1] # None) =>
        /\ last.kind = "dated"
        /\ last.ts = SidecarOf(last.f).photoTakenTime[1]
        /\ last.classification = "fixed"
        /\ stats.fixed = 1

\* The outcome the fallback order gives a file: the first stage that produces
\* a timestamp decides it and its classification.
Expected(f) ==
    IF SidecarStage(f) # None THEN [kind |-> "dated", ts |-> SidecarStage(f), classification |-> "fixed"]
    ELSE IF ReadExif(f, tz) # None THEN [kind |-> "dated", ts |-> ReadExif(f, tz), classification |-> "fixed"]
    ELSE IF ExtractXmpTimestamp(f, tz) # None
         THEN [kind |-> "dated", ts |-> ExtractXmpTimestamp(f, tz), classification |-> "fixed"]
    ELSE IF NameStage(f) # None
         THEN [kind |-> "dated", ts |-> NameStage(f), classification |-> "restored_from_filename"]
    ELSE IF MtimeStage(f) # None THEN [kind |-> "dated", ts |-> MtimeStage(f), classification |-> "fixed"]
    ELSE IF flags.skip_no_metadata THEN [kind |-> "skipped", ts |-> None, classification |-> "None"]
    ELSE [kind |-> "review", ts |-> None, classification |-> "renamed_only"]

\* C3: the resolved timestamp and the classification of a file are those of
\* the first stage, in the order sidecar, EXIF, XMP, filename, mtime, that
\* produces a timestamp; no later stage overrides it; without any the file is
\* skipped or renamed_only.
C3_FirstStageWins ==
    Visited =>
        /\ last.kind = Expected(last.f).kind
        /\ last.ts = Expected(last.f).ts
        /\ last.classification = Expected(last.f).classification

\* C6: a file with a messaging-app name and no sidecar, EXIF or XMP timestamp
\* resolves to noon of the date in its name, with the messaging-app flag set,
\* classified restored_from_filename and named ..._WA_FN; and every output
\* name has _WA iff the flag is set and _FN iff the classification is
\* restored_from_filename.
C6_MessagingAppName ==
    Visited =>
        /\ last.kind = "dated" =>
              /\ last.path.wa <=> last.is_wa
              /\ last.path.fn <=> last.classification = "restored_from_filename"
        /\ (/\ last.f.name.shape = "wa"
            /\ SidecarStage(last.f) = None
            /\ ReadExif(last.f, tz) = None
            /\ ExtractXmpTimestamp(last.f, tz) = None) =>
              /\ last.kind = "dated"
              /\ last.ts = Some(LocalToEpoch(last.f.name.date, Noon, tz))
              /\ last.is_wa
              /\ last.classification = "restored_from_filename"
              /\ last.path.wa /\ last.path.fn

\* C7: a file with no sidecar timestamp, no EXIF date, no XMP date and no
\* parseable filename date, with use_mtime_fallback and skip_no_metadata both
\* false, is copied under its own name into Needs_Review, into no year
\* directory and with no timestamp written, and adds one to renamed_only and
\* nothing to fixed, restored_from_filename and skipped.
C7_NeedsReview ==
    (/\ Visited
     /\ SidecarStage(last.f) = None
     /\ ReadExif(last.f, tz) = None
     /\ ExtractXmpTimestamp(last.f, tz) = None
     /\ NameStage(last.f) = None
     /\ ~flags.use_mtime_fallback
     /\ ~flags.skip_no_metadata) =>
        /\ last.kind = "review"
        /\ FileName(last.f) \in DOMAIN needs_review
        /\ needs_review[FileName(last.f)].src = last.src
        /\ needs_review[FileName(last.f)].utime = None
        /\ year_dirs = EmptyMap
        /\ stats.renamed_only = 1
        /\ stats.fixed = 0 /\ stats.restored_from_filename = 0 /\ stats.skipped = 0

\* C8: no metadata reader lets a parse failure escape: whatever the file, the
\* sidecar reader, the EXIF reader, the XMP scanner and the filename parser
\* give a no-timestamp result instead of raising, and the run goes on.
C8_ReadersNeverRaise ==
    /\ exc.origin # "get_timestamp_from_filename"
    /\ Visited => last.kind # "raised"

\* C9: a run is aborted only by a corrupt archive, an unsafe archive entry or
\* an unknown layout; a failure on one file (stat, hashing read, copy,
\* timestamp update) never turns the request into an error response.
C9_OnlyFatalKindsAbort ==
    (temp_dirs # <<>> /\ response.status \notin {0, 200}) =>
        \/ exc.origin \in {"ZipFile", "safe_extract_zip"}
        \/ layout = "unknown"

\* photo_extensions: the extensions the loops of process_* take as media.
photo_extensions == {".jpg", ".jpeg", ".png", ".heic", ".heif", ".gif", ".bmp", ".webp"}

\* C11: detect_export_type answers google_takeout iff the tree has a JSON
\* file and a file with one of the supported media extensions, apple_photos
\* iff it has such a media file and no JSON file, unknown otherwise; a tree
\* with a file the loops would process is never unknown.
C11_DetectClassifies ==
    layout # "" =>
        LET has_media == tree.exts \cap photo_extensions # {}
        IN layout = IF tree.has_json /\ has_media THEN "google_takeout"
                    ELSE IF has_media THEN "apple_photos"
                    ELSE "unknown"

\* The errors the run statistics record.
ErrorsCounted == IF "errors" \in DOMAIN stats THEN stats["errors"] ELSE 0

\* C12: when the EXIF write fails for a .jpg/.jpeg output file, the
\* filesystem timestamp of that file is still set, the batch goes on (no
\* exception ends the walk), and the run statistics count an error for the
\* file.
C12_ExifFailureCounted ==
    (last.kind # "none" /\ last.io = "exif" /\ pc # "closed") =>
        /\ last.kind = "dated"
        /\ pc \in {"walk", "sent"}
        /\ exc = NoException
        /\ year_dirs[last.path].exif = None
        /\ year_dirs[last.path].utime = last.ts
        /\ ErrorsCounted >= 1

\* C13: when process_* has returned, every visited file is in exactly one
\* outcome counter: total_files is the sum of fixed, restored_from_filename,
\* renamed_only, skipped and duplicates_removed.
C13_CountersAddUp ==
    pc = "sent" =>
        stats.total_files = stats.fixed + stats.restored_from_filename + stats.renamed_only
                            + stats.skipped + stats.duplicates_removed

\* C14: when process_* has returned, Needs_Review holds as many files as
\* renamed_only counts: two renamed_only files of the same name are both
\* there.
C14_ReviewBucketComplete ==
    pc = "sent" => Cardinality(DOMAIN needs_review) = stats.renamed_only

\* C15: with remove_duplicates, when process_* has returned, for every key
\* that had a file removed as a duplicate the first file with that key, the
\* one the duplicates are reported against, is in the output tree.
C15_FirstOccurrenceKept ==
    (pc = "sent" /\ flags.remove_duplicates) =>
        \A k \in DOMAIN first_seen :
            first_seen[k].count > 1 =>
                \E e \in OutputEntries : e.key = k /\ e.file = first_seen[k].file

====
